---------------------------- MODULE Spec2Model ----------------------------
(***************************************************************************)
(* A model of two parts of thin-edge.io:                                   *)
(*   - the DVS mapper's message grammar (mapper/dvs_mapper/src/dvs.rs):    *)
(*     DvsTopic::from_str, DvsPayload::parse_from, DvsMessage::parse_from; *)
(*   - the Thin Edge JSON serializer                                       *)
(*     (mapper/thin_edge_json/src/serialize.rs): ThinEdgeJsonSerializer.   *)
(*                                                                         *)
(* Text is a sequence of one-character strings; a payload is a sequence of *)
(* bytes, each written as the character it encodes, with "xFF" for a byte  *)
(* that occurs in no UTF-8 text and "x00" for the NUL byte.                *)
(***************************************************************************)
EXTENDS Integers, Sequences, FiniteSets, TLC

VARIABLES
    dvs,                \* the last call made to the DVS parsers and its result
    json,               \* ThinEdgeJsonSerializer.json: the JsonWriter's buffer
    is_within_group,    \* ThinEdgeJsonSerializer.is_within_group
    needs_separator,    \* ThinEdgeJsonSerializer.needs_separator
    default_timestamp,  \* ThinEdgeJsonSerializer.default_timestamp
    timestamp_present,  \* ThinEdgeJsonSerializer.timestamp_present
    consumed,           \* the serializer has been moved into bytes(self)
    history,            \* the calls made on the serializer, with their results
    yielded             \* the texts returned by into_string / bytes, in order

dvs_vars == <<dvs>>
ser_vars == <<json, is_within_group, needs_separator, default_timestamp,
              timestamp_present>>
vars == <<dvs, json, is_within_group, needs_separator, default_timestamp,
          timestamp_present, consumed, history, yielded>>

-----------------------------------------------------------------------------
(* Bounds of the model.                                                    *)

MaxTopicLen == 4
MaxPayloadLen == 4
MaxCalls == 5

-----------------------------------------------------------------------------
(* Text helpers.                                                           *)

\* All sequences over alphabet of length at most n.
SeqsUpTo(alphabet, n) == UNION {[1..k -> alphabet] : k \in 0..n}

\* Index of the first occurrence of c in s, 0 when there is none.
FirstIndex(s, c) ==
    IF \E i \in 1..Len(s) : s[i] = c
    THEN CHOOSE i \in 1..Len(s) : s[i] = c /\ \A j \in 1..(i - 1) : s[j] # c
    ELSE 0

\* str::split(sep): the pieces between the separators; a text without any
\* separator (the empty text included) is one piece.
RECURSIVE Split(_, _)
Split(s, sep) ==
    LET i == FirstIndex(s, sep) IN
    IF i = 0 THEN <<s>>
    ELSE <<SubSeq(s, 1, i - 1)>> \o Split(SubSeq(s, i + 1, Len(s)), sep)

\* std::str::from_utf8 succeeds: over the bytes of the model, the only byte
\* that no UTF-8 text holds is 0xFF.
IsUtf8(bytes) == \A i \in 1..Len(bytes) : bytes[i] # "xFF"

-----------------------------------------------------------------------------
(* 64-bit floats.  A finite decimal literal denotes the number m / 10^e,   *)
(* kept normalised (no trailing zero in the fraction), so that two texts   *)
(* have the same representation exactly when they denote the same number.  *)
(* Within the lengths of the model, distinct decimals round to distinct    *)
(* doubles, so equality of the representation is equality of the parse.    *)

DecimalDigits == {"0", "1", "2", "3", "4", "5", "6", "7", "8", "9"}

DigitValue(c) ==
    CASE c = "0" -> 0 [] c = "1" -> 1 [] c = "2" -> 2 [] c = "3" -> 3
      [] c = "4" -> 4 [] c = "5" -> 5 [] c = "6" -> 6 [] c = "7" -> 7
      [] c = "8" -> 8 [] c = "9" -> 9

RECURSIVE DigitsValue(_)
DigitsValue(s) ==
    IF Len(s) = 0 THEN 0
    ELSE 10 * DigitsValue(SubSeq(s, 1, Len(s) - 1)) + DigitValue(s[Len(s)])

RECURSIVE Normalise(_, _)
Normalise(m, e) ==
    IF e > 0 /\ m % 10 = 0 THEN Normalise(m \div 10, e - 1)
    ELSE [m |-> m, e |-> e]

F64(m, e) == Normalise(m, e)

\* str::parse::<f64> accepts the text: digits with at most one '.', and at
\* least one digit ("1.", ".1" and "1.1" are numbers, "." and "" are not).
\* Signs, exponents and the inf/nan words are outside the model's alphabet.
IsF64Literal(s) ==
    /\ \A i \in 1..Len(s) : s[i] \in DecimalDigits \cup {"."}
    /\ Cardinality({i \in 1..Len(s) : s[i] = "."}) <= 1
    /\ \E i \in 1..Len(s) : s[i] \in DecimalDigits

\* The value str::parse::<f64> returns for an accepted text.
F64Value(s) ==
    LET dot == FirstIndex(s, ".")
        int == IF dot = 0 THEN s ELSE SubSeq(s, 1, dot - 1)
        frac == IF dot = 0 THEN <<>> ELSE SubSeq(s, dot + 1, Len(s))
    IN  F64(DigitsValue(int \o frac), Len(frac))

-----------------------------------------------------------------------------
(* Results.                                                                *)

Ok(v) == [tag |-> "Ok", val |-> v]
Err(e) == [tag |-> "Err", err |-> e]
IsOk(r) == r.tag = "Ok"
IsErr(r) == r.tag = "Err"


-----------------------------------------------------------------------------
(* mapper/dvs_mapper/src/dvs.rs                                            *)

InvalidDvsTopicName == "InvalidDvsTopicName"

\* DvsPayloadError: the variant and the text (or bytes) it carries.
DvsPayloadError(kind, arg) == [kind |-> kind, arg |-> arg]

\* A variant of DvsTopic::from_str without the check for a fifth segment.
DvsTopic_from_str_NoTrailingCheck(topic_name) ==
    LET iter == Split(topic_name, "/") IN
    IF Len(iter) < 4 THEN Err(InvalidDvsTopicName)
    ELSE Ok([metric_group_key |-> iter[3], metric_key |-> iter[4]])

\* DvsTopic::from_str: four iter.next() that must each yield a segment, and
\* a fifth that must not.
DvsTopic_from_str(topic_name) ==
    LET iter == Split(topic_name, "/") IN
    IF Len(iter) < 1 THEN Err(InvalidDvsTopicName)         \* _dvs_prefix
    ELSE IF Len(iter) < 2 THEN Err(InvalidDvsTopicName)    \* _hostname
    ELSE IF Len(iter) < 3 THEN Err(InvalidDvsTopicName)    \* metric_group_key
    ELSE IF Len(iter) < 4 THEN Err(InvalidDvsTopicName)    \* metric_key
    ELSE IF Len(iter) >= 5 THEN Err(InvalidDvsTopicName)
    ELSE Ok([metric_group_key |-> iter[3], metric_key |-> iter[4]])

\* DvsPayload::parse_from.  The two statements that took and parsed the
\* timestamp field are commented out in the source, so the first field of
\* the split is the one parsed as metric_value, and any second field is a
\* format error.
DvsPayload_parse_from(payload) ==
    IF ~IsUtf8(payload)
    THEN Err(DvsPayloadError("NonUTF8MeasurementPayload", payload))
    ELSE
    LET iter == Split(payload, ":") IN
    IF Len(iter) < 1
    THEN Err(DvsPayloadError("InvalidMeasurementPayloadFormat", payload))
    ELSE
    LET metric_value == iter[1] IN
    IF ~IsF64Literal(metric_value)
    THEN Err(DvsPayloadError("InvalidMeasurementValue", metric_value))
    ELSE IF Len(iter) >= 2
    THEN Err(DvsPayloadError("InvalidMeasurementPayloadFormat", payload))
    ELSE Ok([metric_value |-> F64Value(metric_value)])

\* Message::payload_trimmed: the payload without its trailing NUL byte.
payload_trimmed(mqtt_message) ==
    LET p == mqtt_message.payload IN
    IF Len(p) > 0 /\ p[Len(p)] = "x00" THEN SubSeq(p, 1, Len(p) - 1) ELSE p

\* A variant of DvsMessage::parse_from that parses the payload before the
\* topic.
DvsMessage_parse_from_PayloadFirst(mqtt_message) ==
    LET topic == mqtt_message.topic
        dvs_payload == DvsPayload_parse_from(payload_trimmed(mqtt_message))
        dvs_topic == DvsTopic_from_str(topic)
    IN
    IF IsErr(dvs_payload)
    THEN Err([kind |-> "InvalidMeasurementPayload", topic |-> topic,
              source |-> dvs_payload.err])
    ELSE IF IsErr(dvs_topic)
    THEN Err([kind |-> "InvalidMeasurementTopic", topic |-> topic])
    ELSE Ok([metric_group_key |-> dvs_topic.val.metric_group_key,
             metric_key |-> dvs_topic.val.metric_key,
             metric_value |-> dvs_payload.val.metric_value])

\* DvsMessage::parse_from
DvsMessage_parse_from(mqtt_message) ==
    LET topic == mqtt_message.topic
        dvs_topic == DvsTopic_from_str(topic)
    IN
    IF IsErr(dvs_topic)
    THEN Err([kind |-> "InvalidMeasurementTopic", topic |-> topic])
    ELSE
    LET dvs_payload == DvsPayload_parse_from(payload_trimmed(mqtt_message)) IN
    IF IsErr(dvs_payload)
    THEN Err([kind |-> "InvalidMeasurementPayload", topic |-> topic,
              source |-> dvs_payload.err])
    ELSE Ok([metric_group_key |-> dvs_topic.val.metric_group_key,
             metric_key |-> dvs_topic.val.metric_key,
             metric_value |-> dvs_payload.val.metric_value])

-----------------------------------------------------------------------------
(* The inputs of the parsers.                                              *)

TopicChars == {"/", "a"}
PayloadBytes == {"1", ".", ":", "a", "x00", "xFF"}

Topics == SeqsUpTo(TopicChars, MaxTopicLen)
Payloads == SeqsUpTo(PayloadBytes, MaxPayloadLen)

\* No parser has been called yet; each behaviour makes one call.
NoCall == [fn |-> "none", topic |-> <<>>, payload |-> <<>>, result |-> Ok(<<>>)]

\* A call of DvsTopic::from_str
ParseTopic ==
    /\ dvs = NoCall
    /\ \E t \in Topics :
         dvs' = [fn |-> "DvsTopic::from_str", topic |-> t, payload |-> <<>>,
                 result |-> DvsTopic_from_str(t)]
    /\ UNCHANGED <<ser_vars, consumed, history, yielded>>

\* A call of DvsPayload::parse_from
ParsePayload ==
    /\ dvs = NoCall
    /\ \E p \in Payloads :
         dvs' = [fn |-> "DvsPayload::parse_from", topic |-> <<>>, payload |-> p,
                 result |-> DvsPayload_parse_from(p)]
    /\ UNCHANGED <<ser_vars, consumed, history, yielded>>

\* A call of DvsMessage::parse_from
ParseMessage ==
    /\ dvs = NoCall
    /\ \E t \in Topics, p \in Payloads :
         dvs' = [fn |-> "DvsMessage::parse_from", topic |-> t, payload |-> p,
                 result |-> DvsMessage_parse_from([topic |-> t, payload |-> p])]
    /\ UNCHANGED <<ser_vars, consumed, history, yielded>>

-----------------------------------------------------------------------------
(* The JSON writer the serializer writes through.  The buffer is the       *)
(* sequence of the pieces written, each a token [t, s, n]: the kind of the *)
(* piece, its text (a key or a string value) and its number (a float).     *)

NoText == ""
NoNumber == F64(0, 0)
Token(t, s, n) == [t |-> t, s |-> s, n |-> n]

\* JsonWriter::with_capacity
with_capacity == <<>>
\* JsonWriter::write_open_obj writes {
write_open_obj(buffer) == Append(buffer, Token("{", NoText, NoNumber))
\* JsonWriter::write_close_obj writes }
write_close_obj(buffer) == Append(buffer, Token("}", NoText, NoNumber))
\* JsonWriter::write_separator writes ,
write_separator(buffer) == Append(buffer, Token(",", NoText, NoNumber))
\* JsonWriter::write_key writes "key":
write_key(buffer, key) == Append(buffer, Token("key", key, NoNumber))
\* JsonWriter::write_str writes "s"
write_str(buffer, str) == Append(buffer, Token("str", str, NoNumber))
\* JsonWriter::write_f64 writes the number
write_f64(buffer, value) == Append(buffer, Token("f64", NoText, value))
\* JsonWriter::into_string: the text written so far
into_text(buffer) == buffer

\* Option<T>
None == [some |-> FALSE, v |-> 0]
Some(x) == [some |-> TRUE, v |-> x]

\* DateTime::to_rfc3339, for the instants of the model: an instant is the
\* number of seconds since the epoch, in the zone +00:00.
to_rfc3339(timestamp) ==
    CASE timestamp = 0 -> "1970-01-01T00:00:00+00:00"
      [] timestamp = 1 -> "1970-01-01T00:00:01+00:00"
      [] OTHER -> "1970-01-01T00:00:02+00:00"

-----------------------------------------------------------------------------
(* mapper/thin_edge_json/src/serialize.rs                                  *)
(* An operation takes the serializer (self) and returns the serializer     *)
(* after the call with the call's result: "Ok" or the name of the          *)
(* MeasurementStreamError.                                                 *)

Self == [json |-> json,
         is_within_group |-> is_within_group,
         needs_separator |-> needs_separator,
         default_timestamp |-> default_timestamp,
         timestamp_present |-> timestamp_present]

Return(self, res) == [self |-> self, res |-> res]

\* ThinEdgeJsonSerializer::new_with_timestamp
new_with_timestamp(default) ==
    [json |-> write_open_obj(with_capacity),
     is_within_group |-> FALSE,
     needs_separator |-> FALSE,
     default_timestamp |-> default,
     timestamp_present |-> FALSE]

\* ThinEdgeJsonSerializer::new
new == new_with_timestamp(None)

\* if self.needs_separator { self.json.write_separator(); }
separated(self) ==
    IF self.needs_separator THEN write_separator(self.json) ELSE self.json

\* A variant of timestamp without the check for an open group.
timestamp_NoGroupCheck(self, ts) ==
    Return([self EXCEPT
              !.json = write_str(write_key(separated(self), "time"),
                                 to_rfc3339(ts)),
              !.needs_separator = TRUE,
              !.timestamp_present = TRUE],
           "Ok")

\* GroupedMeasurementVisitor::timestamp
timestamp(self, ts) ==
    IF self.is_within_group THEN Return(self, "UnexpectedTimestamp")
    ELSE Return([self EXCEPT
                   !.json = write_str(write_key(separated(self), "time"),
                                      to_rfc3339(ts)),
                   !.needs_separator = TRUE,
                   !.timestamp_present = TRUE],
                "Ok")

\* A variant of measurement that is rejected inside a group.
measurement_TopLevelOnly(self, name, value) ==
    IF self.is_within_group THEN Return(self, "UnexpectedEndOfGroup")
    ELSE Return([self EXCEPT
                   !.json = write_f64(write_key(separated(self), name), value),
                   !.needs_separator = TRUE],
                "Ok")

\* A variant of measurement that does not ask for a separator after it.
measurement_NoSeparatorAfter(self, name, value) ==
    Return([self EXCEPT
              !.json = write_f64(write_key(separated(self), name), value)],
           "Ok")

\* GroupedMeasurementVisitor::measurement
measurement(self, name, value) ==
    Return([self EXCEPT
              !.json = write_f64(write_key(separated(self), name), value),
              !.needs_separator = TRUE],
           "Ok")

\* A variant of start_group without the check for an open group.
start_group_Nested(self, group) ==
    Return([self EXCEPT
              !.json = write_open_obj(write_key(separated(self), group)),
              !.needs_separator = FALSE,
              !.is_within_group = TRUE],
           "Ok")

\* GroupedMeasurementVisitor::start_group
start_group(self, group) ==
    IF self.is_within_group THEN Return(self, "UnexpectedStartOfGroup")
    ELSE Return([self EXCEPT
                   !.json = write_open_obj(write_key(separated(self), group)),
                   !.needs_separator = FALSE,
                   !.is_within_group = TRUE],
                "Ok")

\* A variant of end_group without the check for an open group.
end_group_NoOpenCheck(self) ==
    Return([self EXCEPT
              !.json = write_close_obj(self.json),
              !.needs_separator = TRUE,
              !.is_within_group = FALSE],
           "Ok")

\* A variant of end_group that writes the closing brace before it checks
\* for an open group.
end_group_WritesBeforeCheck(self) ==
    LET written == [self EXCEPT !.json = write_close_obj(self.json)] IN
    IF ~self.is_within_group THEN Return(written, "UnexpectedEndOfGroup")
    ELSE Return([written EXCEPT !.needs_separator = TRUE,
                                !.is_within_group = FALSE],
                "Ok")

\* A variant of end_group that does not ask for a separator after the group.
end_group_NoSeparatorAfter(self) ==
    IF ~self.is_within_group THEN Return(self, "UnexpectedEndOfGroup")
    ELSE Return([self EXCEPT
                   !.json = write_close_obj(self.json),
                   !.is_within_group = FALSE],
                "Ok")

\* GroupedMeasurementVisitor::end_group
end_group(self) ==
    IF ~self.is_within_group THEN Return(self, "UnexpectedEndOfGroup")
    ELSE Return([self EXCEPT
                   !.json = write_close_obj(self.json),
                   !.needs_separator = TRUE,
                   !.is_within_group = FALSE],
                "Ok")

\* A variant of end that closes an open group instead of failing.
end_ClosesOpenGroup(self) ==
    LET closed == IF self.is_within_group THEN end_group(self).self ELSE self
        stamped == IF ~closed.timestamp_present /\ closed.default_timestamp.some
                   THEN timestamp(closed, closed.default_timestamp.v).self
                   ELSE closed
    IN  Return([stamped EXCEPT !.json = write_close_obj(stamped.json)], "Ok")

\* A variant of end that writes the default timestamp whether or not a
\* timestamp is present.
end_AlwaysDefault(self) ==
    IF self.is_within_group THEN Return(self, "UnexpectedEndOfData")
    ELSE
    LET stamped == IF self.default_timestamp.some
                   THEN timestamp(self, self.default_timestamp.v).self
                   ELSE self
    IN  Return([stamped EXCEPT !.json = write_close_obj(stamped.json)], "Ok")

\* ThinEdgeJsonSerializer::end
end(self) ==
    IF self.is_within_group THEN Return(self, "UnexpectedEndOfData")
    ELSE
    LET stamped == IF ~self.timestamp_present /\ self.default_timestamp.some
                   THEN timestamp(self, self.default_timestamp.v)
                   ELSE Return(self, "Ok")
    IN
    IF stamped.res # "Ok" THEN stamped
    ELSE Return([stamped.self EXCEPT !.json = write_close_obj(stamped.self.json)],
                "Ok")

\* ThinEdgeJsonSerializer::into_string: the result carries the text returned
\* (a clone of the buffer), or no text when end fails.
into_string(self) ==
    LET ended == end(self) IN
    IF ended.res # "Ok"
    THEN [self |-> ended.self, res |-> ended.res, text |-> <<>>]
    ELSE [self |-> ended.self, res |-> "Ok", text |-> into_text(ended.self.json)]

\* ThinEdgeJsonSerializer::bytes
bytes(self) == into_string(self)

-----------------------------------------------------------------------------
(* The inputs of the serializer and its actions: one per call a caller can *)
(* make on a serializer it holds.                                          *)

Timestamps == {0, 1}
DefaultTimestamps == {None, Some(0)}
MeasurementNames == {"temperature", "alti"}
MeasurementValues == {F64(255, 1)}
GroupNames == {"location"}

Call(op, name, ts, value, res) ==
    [op |-> op, name |-> name, ts |-> ts, value |-> value, res |-> res]

SetSelf(self) ==
    /\ json' = self.json
    /\ is_within_group' = self.is_within_group
    /\ needs_separator' = self.needs_separator
    /\ default_timestamp' = self.default_timestamp
    /\ timestamp_present' = self.timestamp_present

\* The caller holds the serializer and makes one more call.
CanCall == ~consumed /\ Len(history) < MaxCalls

CallTimestamp ==
    /\ CanCall
    /\ \E ts \in Timestamps :
         LET r == timestamp(Self, ts) IN
         /\ SetSelf(r.self)
         /\ history' = Append(history, Call("timestamp", NoText, ts, NoNumber, r.res))
    /\ UNCHANGED <<dvs, consumed, yielded>>

CallMeasurement ==
    /\ CanCall
    /\ \E name \in MeasurementNames, value \in MeasurementValues :
         LET r == measurement(Self, name, value) IN
         /\ SetSelf(r.self)
         /\ history' = Append(history, Call("measurement", name, 0, value, r.res))
    /\ UNCHANGED <<dvs, consumed, yielded>>

CallStartGroup ==
    /\ CanCall
    /\ \E group \in GroupNames :
         LET r == start_group(Self, group) IN
         /\ SetSelf(r.self)
         /\ history' = Append(history, Call("start_group", group, 0, NoNumber, r.res))
    /\ UNCHANGED <<dvs, consumed, yielded>>

CallEndGroup ==
    /\ CanCall
    /\ LET r == end_group(Self) IN
         /\ SetSelf(r.self)
         /\ history' = Append(history, Call("end_group", NoText, 0, NoNumber, r.res))
    /\ UNCHANGED <<dvs, consumed, yielded>>

\* into_string(&mut self) borrows the serializer: the caller still holds it.
CallIntoString ==
    /\ CanCall
    /\ LET r == into_string(Self) IN
         /\ SetSelf(r.self)
         /\ history' = Append(history, Call("into_string", NoText, 0, NoNumber, r.res))
         /\ yielded' = IF r.res = "Ok" THEN Append(yielded, r.text) ELSE yielded
    /\ UNCHANGED <<dvs, consumed>>

\* bytes(mut self) takes the serializer: no call can follow it.
CallBytes ==
    /\ CanCall
    /\ LET r == bytes(Self) IN
         /\ SetSelf(r.self)
         /\ history' = Append(history, Call("bytes", NoText, 0, NoNumber, r.res))
         /\ yielded' = IF r.res = "Ok" THEN Append(yielded, r.text) ELSE yielded
    /\ consumed' = TRUE
    /\ UNCHANGED dvs

-----------------------------------------------------------------------------
(* Specifications.                                                         *)

\* The serializer as constructed by new_with_timestamp, no parser called.
Init ==
    /\ dvs = NoCall
    /\ \E default \in DefaultTimestamps :
         /\ json = new_with_timestamp(default).json
         /\ is_within_group = new_with_timestamp(default).is_within_group
         /\ needs_separator = new_with_timestamp(default).needs_separator
         /\ default_timestamp = new_with_timestamp(default).default_timestamp
         /\ timestamp_present = new_with_timestamp(default).timestamp_present
    /\ consumed = FALSE
    /\ history = <<>>
    /\ yielded = <<>>

Next ==
    \/ CallTimestamp
    \/ CallMeasurement
    \/ CallStartGroup
    \/ CallEndGroup
    \/ CallIntoString
    \/ CallBytes

\* The serializer driven by any caller.
Spec == Init /\ [][Next]_vars

DvsInit ==
    /\ dvs = NoCall
    /\ json = new.json
    /\ is_within_group = new.is_within_group
    /\ needs_separator = new.needs_separator
    /\ default_timestamp = new.default_timestamp
    /\ timestamp_present = new.timestamp_present
    /\ consumed = FALSE
    /\ history = <<>>
    /\ yielded = <<>>

DvsNext ==
    \/ ParseTopic
    \/ ParsePayload
    \/ ParseMessage

\* The parsers applied to any topic, payload and message.
DvsSpec == DvsInit /\ [][DvsNext]_vars

-----------------------------------------------------------------------------
(* Properties of the DVS parsers, checked under DvsSpec.                   *)

\* The number of occurrences of c in s.
Count(s, c) == Cardinality({i \in 1..Len(s) : s[i] = c})

\* The text s1:s2 / s1/s2.
Joined(s1, c, s2) == s1 \o <<c>> \o s2

\* payload is the text ts:value of exactly two fields.
IsTwoFields(payload, ts, value) ==
    /\ Count(ts, ":") = 0
    /\ Count(value, ":") = 0
    /\ payload = Joined(ts, ":", value)

\* The field of payload before its first ':' (the whole text without one).
FirstField(payload) ==
    IF Count(payload, ":") = 0 THEN payload
    ELSE SubSeq(payload, 1, FirstIndex(payload, ":") - 1)

\* The text of payload after its first ':'.
AfterFirstField(payload) ==
    SubSeq(payload, FirstIndex(payload, ":") + 1, Len(payload))

\* C1: DvsPayload::parse_from succeeds if and only if the payload is valid
\* UTF-8 and is two ':'-separated fields that both parse as numbers, and on
\* success metric_value is the numeric parse of the second field.
C1_PayloadParsesIffTwoNumericFields ==
    dvs.fn = "DvsPayload::parse_from" =>
        LET payload == dvs.payload
            ts == FirstField(payload)
            value == AfterFirstField(payload)
            wellFormed == /\ IsUtf8(payload)
                          /\ Count(payload, ":") = 1
                          /\ IsTwoFields(payload, ts, value)
                          /\ IsF64Literal(ts)
                          /\ IsF64Literal(value)
        IN  /\ IsOk(dvs.result) <=> wellFormed
            /\ IsOk(dvs.result) =>
                   dvs.result.val.metric_value = F64Value(value)

\* C2: DvsTopic::from_str succeeds if and only if the topic has exactly four
\* '/'-separated segments (three separators, empty segments counting); on
\* success the topic is prefix/host/metric_group_key/metric_key, the two keys
\* being its third and fourth segments unchanged.
C2_TopicParsesIffFourSegments ==
    dvs.fn = "DvsTopic::from_str" =>
        /\ IsOk(dvs.result) <=> Count(dvs.topic, "/") = 3
        /\ IsOk(dvs.result) =>
               LET group == dvs.result.val.metric_group_key
                   key == dvs.result.val.metric_key
                   tail == Joined(Joined(<<>>, "/", group), "/", key)
                   head == SubSeq(dvs.topic, 1, Len(dvs.topic) - Len(tail))
               IN  /\ Count(group, "/") = 0
                   /\ Count(key, "/") = 0
                   /\ Count(head, "/") = 1
                   /\ dvs.topic = head \o tail

\* A topic of four segments was parsed, its two keys differing.
C2_Witness ==
    /\ dvs.fn = "DvsTopic::from_str"
    /\ IsOk(dvs.result)
    /\ dvs.result.val.metric_group_key # dvs.result.val.metric_key

\* C3: a payload that is one numeric field, without ':', is rejected by
\* DvsPayload::parse_from with InvalidMeasurementPayloadFormat carrying the
\* payload, and DvsMessage::parse_from on a valid topic with such a payload
\* returns InvalidMeasurementPayload.
C3_SingleNumericFieldRejected ==
    LET single(payload) == /\ IsUtf8(payload)
                           /\ Count(payload, ":") = 0
                           /\ IsF64Literal(payload)
    IN
    /\ (dvs.fn = "DvsPayload::parse_from" /\ single(dvs.payload)) =>
           /\ IsErr(dvs.result)
           /\ dvs.result.err =
                  DvsPayloadError("InvalidMeasurementPayloadFormat", dvs.payload)
    /\ (/\ dvs.fn = "DvsMessage::parse_from"
        /\ Count(dvs.topic, "/") = 3
        /\ single(payload_trimmed(dvs))) =>
           /\ IsErr(dvs.result)
           /\ dvs.result.err.kind = "InvalidMeasurementPayload"

\* C4: when the first ':'-separated field of a UTF-8 payload is not a
\* number, DvsPayload::parse_from fails with InvalidMeasurementTimestamp
\* carrying that field, whatever follows it.
C4_NonNumericTimestampRejected ==
    (/\ dvs.fn = "DvsPayload::parse_from"
     /\ IsUtf8(dvs.payload)
     /\ ~IsF64Literal(FirstField(dvs.payload))) =>
        /\ IsErr(dvs.result)
        /\ dvs.result.err =
               DvsPayloadError("InvalidMeasurementTimestamp",
                               FirstField(dvs.payload))

\* C5: when a UTF-8 payload has a numeric first field and a second field
\* that is not a number, DvsPayload::parse_from fails with
\* InvalidMeasurementValue carrying the second field.
C5_NonNumericValueRejected ==
    (/\ dvs.fn = "DvsPayload::parse_from"
     /\ IsUtf8(dvs.payload)
     /\ Count(dvs.payload, ":") >= 1
     /\ IsF64Literal(FirstField(dvs.payload))
     /\ ~IsF64Literal(FirstField(AfterFirstField(dvs.payload)))) =>
        /\ IsErr(dvs.result)
        /\ dvs.result.err =
               DvsPayloadError("InvalidMeasurementValue",
                               FirstField(AfterFirstField(dvs.payload)))

\* C6: DvsMessage::parse_from checks the topic before the payload: a topic
\* that is not four segments gives InvalidMeasurementTopic carrying the
\* topic, whatever the payload; a valid topic with a payload the payload
\* parser rejects with e gives InvalidMeasurementPayload carrying the topic
\* and e; otherwise the result is the topic's keys with the payload's value.
C6_TopicCheckedBeforePayload ==
    dvs.fn = "DvsMessage::parse_from" =>
        LET validTopic == Count(dvs.topic, "/") = 3
            parsedPayload == DvsPayload_parse_from(payload_trimmed(dvs))
        IN  /\ ~validTopic =>
                 /\ IsErr(dvs.result)
                 /\ dvs.result.err =
                        [kind |-> "InvalidMeasurementTopic", topic |-> dvs.topic]
            /\ (validTopic /\ IsErr(parsedPayload)) =>
                 /\ IsErr(dvs.result)
                 /\ dvs.result.err =
                        [kind |-> "InvalidMeasurementPayload",
                         topic |-> dvs.topic,
                         source |-> parsedPayload.err]
            /\ (validTopic /\ IsOk(parsedPayload)) =>
                 /\ IsOk(dvs.result)
                 /\ dvs.topic =
                        SubSeq(dvs.topic, 1,
                               Len(dvs.topic)
                                 - Len(dvs.result.val.metric_group_key)
                                 - Len(dvs.result.val.metric_key) - 2)
                        \o Joined(Joined(<<>>, "/",
                                         dvs.result.val.metric_group_key),
                                  "/", dvs.result.val.metric_key)
                 /\ dvs.result.val.metric_value =
                        parsedPayload.val.metric_value

\* A message whose topic and payload are both invalid was parsed, and the
\* topic is the one reported.
C6_Witness ==
    /\ dvs.fn = "DvsMessage::parse_from"
    /\ Count(dvs.topic, "/") # 3
    /\ IsErr(DvsPayload_parse_from(payload_trimmed(dvs)))
    /\ IsErr(dvs.result)
    /\ dvs.result.err.kind = "InvalidMeasurementTopic"

-----------------------------------------------------------------------------
(* Properties of the serializer, checked under Spec.                       *)

\* The number of tokens of kind t in a text.
CountTokens(text, t) == Cardinality({i \in 1..Len(text) : text[i].t = t})

\* The timestamp entries of a text: timestamp is the only operation that
\* writes a string value, one per entry.
TimeEntries(text) == CountTokens(text, "str")

Finalizers == {"into_string", "bytes"}

\* The i-th call succeeded and was a call of op (of one of ops).
Succeeded(i, ops) == history[i].op \in ops /\ history[i].res = "Ok"

\* The step is a call of one of ops.
IsCallOf(ops) ==
    /\ Len(history') = Len(history) + 1
    /\ history'[Len(history')].op \in ops

\* The result of the call the step makes.
ResultOfCall == history'[Len(history')].res

\* C7: in every state of a serializer, and in every document it has
\* yielded, there is at most one timestamp entry.
C7_AtMostOneTimeEntry ==
    /\ TimeEntries(json) <= 1
    /\ \A i \in 1..Len(yielded) : TimeEntries(yielded[i]) <= 1

\* C8: finalize is single-shot: after a call of into_string or bytes that
\* yielded the document, no further call is made on the serializer.
C8_FinalizeSingleShot ==
    \A i \in 1..Len(history) : Succeeded(i, Finalizers) => i = Len(history)

\* C9: start_group called while a group is open fails with
\* UnexpectedStartOfGroup, and writes nothing: the buffer and the group
\* state are as before the call.
C9_NestedStartGroupRejected ==
    [][(IsCallOf({"start_group"}) /\ is_within_group) =>
           /\ ResultOfCall = "UnexpectedStartOfGroup"
           /\ json' = json
           /\ is_within_group']_vars

\* start_group was rejected in a group that already holds a measurement.
C9_Witness ==
    /\ Len(history) >= 3
    /\ Succeeded(Len(history) - 2, {"start_group"})
    /\ Succeeded(Len(history) - 1, {"measurement"})
    /\ history[Len(history)].op = "start_group"
    /\ history[Len(history)].res = "UnexpectedStartOfGroup"

\* C10: finalize called while a group is open fails with
\* UnexpectedEndOfData, yields nothing and leaves the group open; and in
\* every run, between a successful start_group and a later successful
\* finalize there is a successful end_group.
C10_FinalizeOnlyAtTopLevel ==
    /\ [][(IsCallOf(Finalizers) /\ is_within_group) =>
              /\ ResultOfCall = "UnexpectedEndOfData"
              /\ json' = json
              /\ is_within_group'
              /\ yielded' = yielded]_vars
    /\ [](\A i \in 1..Len(history) : \A j \in 1..(i - 1) :
              (Succeeded(i, Finalizers) /\ Succeeded(j, {"start_group"})) =>
                  \E k \in (j + 1)..(i - 1) : Succeeded(k, {"end_group"}))

\* A finalize failed in an open group, the caller closed the group, and a
\* second finalize succeeded.
C10_Witness ==
    \E j \in 1..Len(history) : \E i \in (j + 1)..Len(history) :
        /\ history[j].op \in Finalizers
        /\ history[j].res = "UnexpectedEndOfData"
        /\ Succeeded(i, Finalizers)

\* The token at position i of text lies inside a group object: a brace that
\* follows a key is open before it and not yet closed.
InsideGroup(text, i) ==
    \E j \in 2..(i - 1) :
        /\ text[j].t = "{"
        /\ text[j - 1].t = "key"
        /\ \A k \in (j + 1)..(i - 1) : text[k].t # "}"

\* C11: timestamp called while a group is open fails with
\* UnexpectedTimestamp and writes nothing, and no timestamp entry is ever
\* inside a group object, in the buffer or in a yielded document.
C11_TimestampRejectedWithinGroup ==
    /\ [][(IsCallOf({"timestamp"}) /\ is_within_group) =>
              /\ ResultOfCall = "UnexpectedTimestamp"
              /\ json' = json]_vars
    /\ [](\A i \in 1..Len(json) :
              json[i].t = "str" => ~InsideGroup(json, i))

\* timestamp was rejected after a start_group that has not been closed.
C11_Witness ==
    /\ Len(history) >= 2
    /\ Succeeded(Len(history) - 1, {"start_group"})
    /\ history[Len(history)].op = "timestamp"
    /\ history[Len(history)].res = "UnexpectedTimestamp"

\* C12: end_group called when no group is open fails with
\* UnexpectedEndOfGroup; called when a group is open it succeeds, writes the
\* closing brace and returns the serializer to the top level.
C12_EndGroupNeedsOpenGroup ==
    [][IsCallOf({"end_group"}) =>
           /\ ~is_within_group =>
                  /\ ResultOfCall = "UnexpectedEndOfGroup"
                  /\ json' = json
           /\ is_within_group =>
                  /\ ResultOfCall = "Ok"
                  /\ ~is_within_group'
                  /\ json' = Append(json, Token("}", NoText, NoNumber))]_vars

\* end_group was rejected right after the end_group that closed the group.
C12_Witness ==
    /\ Len(history) >= 2
    /\ Succeeded(Len(history) - 1, {"end_group"})
    /\ history[Len(history)].op = "end_group"
    /\ history[Len(history)].res = "UnexpectedEndOfGroup"

\* C13: a finalize that fails returns no text, and the document in progress
\* is discarded: after a failed finalize the serializer yields no document.
C13_FailedFinalizeDiscardsDocument ==
    /\ Len(yielded) = Cardinality({i \in 1..Len(history) : Succeeded(i, Finalizers)})
    /\ \A j \in 1..Len(history) :
           (history[j].op \in Finalizers /\ history[j].res # "Ok") =>
               \A i \in (j + 1)..Len(history) : ~Succeeded(i, Finalizers)

OpenBrace == Token("{", NoText, NoNumber)
CloseBrace == Token("}", NoText, NoNumber)
Comma == Token(",", NoText, NoNumber)
Key(name) == Token("key", name, NoNumber)
String(str) == Token("str", str, NoNumber)
Number(value) == Token("f64", NoText, value)

\* A timestamp call of the caller has succeeded.
TimestampSucceeded == \E i \in 1..Len(history) : Succeeded(i, {"timestamp"})

\* The default timestamp as the time entry of a document.
DefaultTimeText == to_rfc3339(default_timestamp.v)

\* C14: on a successful finalize, (a) with no successful timestamp call
\* before it and a default timestamp configured, the document has exactly
\* one time entry, holding the default and followed by a closing brace;
\* (b) after a successful timestamp call the default is not written: the
\* finalize only closes the document; (c) with neither, the document has no
\* time entry; and a serializer driven with no call yields {} without a
\* default and {"time":"<default>"} with one.
C14_DefaultTimestampAtFinalize ==
    [][(IsCallOf(Finalizers) /\ ResultOfCall = "Ok") =>
           /\ yielded' = Append(yielded, json')
           /\ (~TimestampSucceeded /\ default_timestamp.some) =>
                  /\ TimeEntries(json') = 1
                  /\ \E i \in 3..(Len(json') - 1) :
                         /\ json'[i - 1] = Key("time")
                         /\ json'[i] = String(DefaultTimeText)
                         /\ json'[i + 1] = CloseBrace
           /\ TimestampSucceeded => json' = Append(json, CloseBrace)
           /\ (~TimestampSucceeded /\ ~default_timestamp.some) =>
                  TimeEntries(json') = 0
           /\ history = <<>> =>
                  json' = IF default_timestamp.some
                          THEN <<OpenBrace, Key("time"),
                                 String(DefaultTimeText), CloseBrace>>
                          ELSE <<OpenBrace, CloseBrace>>]_vars

\* With a default configured, a measurement and then a finalize yielded the
\* measurement followed by the default's time entry.
C14_Witness ==
    /\ default_timestamp.some
    /\ Len(history) = 2
    /\ Succeeded(1, {"measurement"})
    /\ Succeeded(2, Finalizers)
    /\ Len(yielded) = 1
    /\ Len(yielded[1]) = 7
    /\ yielded[1][4] = Comma
    /\ yielded[1][5] = Key("time")
    /\ yielded[1][6] = String(DefaultTimeText)

\* The kinds of token that end an entry: a number, a string, or the brace
\* closing a group.
EntryEnds == {"f64", "str", "}"}

\* The entries of every object of text are separated by exactly one comma:
\* a key follows an opening brace or a comma, and a comma follows the end of
\* an entry and precedes a key (so none follows an opening brace, none
\* precedes a closing brace and no two are adjacent).
WellSeparated(text) ==
    \A i \in 1..Len(text) :
        /\ text[i].t = "key" =>
               /\ i > 1
               /\ text[i - 1].t \in {"{", ","}
        /\ text[i].t = "," =>
               /\ i > 1
               /\ i < Len(text)
               /\ text[i - 1].t \in EntryEnds
               /\ text[i + 1].t = "key"

\* The position in history of the first finalize that succeeded.
FirstFinalize ==
    CHOOSE i \in 1..Len(history) :
        /\ Succeeded(i, Finalizers)
        /\ \A j \in 1..(i - 1) : ~Succeeded(j, Finalizers)

\* C15: the document yielded by the first successful finalize of a
\* serializer, after any calls of timestamp, measurement, start_group and
\* end_group, has its entries separated by exactly one comma, with no comma
\* after an opening brace and none before a closing brace.
C15_EntriesSeparatedByOneComma ==
    Len(yielded) >= 1 => WellSeparated(yielded[1])

\* With a default configured, an empty group and then a finalize yielded
\* {"location":{},"time":"<default>"}.
C15_Witness ==
    /\ default_timestamp.some
    /\ Len(history) = 3
    /\ Succeeded(1, {"start_group"})
    /\ Succeeded(2, {"end_group"})
    /\ Succeeded(3, Finalizers)
    /\ yielded = << <<OpenBrace, Key(history[1].name), OpenBrace, CloseBrace,
                      Comma, Key("time"), String(DefaultTimeText),
                      CloseBrace>> >>

\* The positions of text where a group object opens: a brace after a key.
GroupOpens(text) ==
    {j \in 2..Len(text) : text[j].t = "{" /\ text[j - 1].t = "key"}

\* The keys of the group objects of text, in order.
RECURSIVE GroupKeys(_)
GroupKeys(text) ==
    IF Len(text) < 2 THEN <<>>
    ELSE LET rest == GroupKeys(SubSeq(text, 1, Len(text) - 1)) IN
         IF Len(text) \in GroupOpens(text)
         THEN Append(rest, text[Len(text) - 1].s)
         ELSE rest

\* The names passed to the start_group calls of calls that succeeded, in
\* order.
RECURSIVE StartedGroups(_)
StartedGroups(calls) ==
    IF Len(calls) = 0 THEN <<>>
    ELSE LET rest == StartedGroups(SubSeq(calls, 1, Len(calls) - 1))
             last == calls[Len(calls)]
         IN  IF last.op = "start_group" /\ last.res = "Ok"
             THEN Append(rest, last.name)
             ELSE rest

\* The position in history of the finalize that yielded the d-th document.
FinalizeOf(d) ==
    CHOOSE i \in 1..Len(history) :
        /\ Succeeded(i, Finalizers)
        /\ Cardinality({j \in 1..i : Succeeded(j, Finalizers)}) = d

\* Every group object of text is closed, is keyed by the names given, and
\* holds nothing but scalar numeric entries (no object, no timestamp).
GroupsAreNumeric(text, names) ==
    /\ GroupKeys(text) = names
    /\ \A j \in GroupOpens(text) : \E k \in (j + 1)..Len(text) : text[k].t = "}"
    /\ \A i \in 1..Len(text) :
           InsideGroup(text, i) =>
               /\ text[i].t \in {"key", "f64", ",", "}"}
               /\ text[i].t = "key" =>
                      (i < Len(text) /\ text[i + 1].t = "f64")

\* C16, as stated: every document yielded by finalize has at most one
\* nested object, keyed by the name passed to start_group and holding only
\* scalar numeric entries.
C16_AtMostOneGroup ==
    \A d \in 1..Len(yielded) :
        /\ Cardinality(GroupOpens(yielded[d])) <= 1
        /\ GroupsAreNumeric(yielded[d],
                            StartedGroups(SubSeq(history, 1, FinalizeOf(d))))

\* C16, amended: every document yielded by finalize has one nested object
\* per successful start_group (there may be several), each keyed by the
\* name passed to its start_group, none inside another, and each holding
\* only scalar numeric entries.
C16_GroupsAreFlatAndNumeric ==
    \A d \in 1..Len(yielded) :
        GroupsAreNumeric(yielded[d],
                         StartedGroups(SubSeq(history, 1, FinalizeOf(d))))

\* A document with two group objects was yielded.
C16_Witness ==
    \E d \in 1..Len(yielded) : Cardinality(GroupOpens(yielded[d])) = 2

\* What a successful call writes, without separators: an entry's key and
\* value, a group's key and opening brace, or a group's closing brace.
Written(call) ==
    CASE call.op = "timestamp" -> <<Key("time"), String(to_rfc3339(call.ts))>>
      [] call.op = "measurement" -> <<Key(call.name), Number(call.value)>>
      [] call.op = "start_group" -> <<Key(call.name), OpenBrace>>
      [] call.op = "end_group" -> <<CloseBrace>>
      [] OTHER -> <<>>

\* The entries of the calls that succeeded, in the order of the calls.
RECURSIVE Entries(_)
Entries(calls) ==
    IF Len(calls) = 0 THEN <<>>
    ELSE Entries(SubSeq(calls, 1, Len(calls) - 1))
         \o (IF calls[Len(calls)].res = "Ok"
             THEN Written(calls[Len(calls)])
             ELSE <<>>)

\* JSON's separators: a comma between the end of an entry and the next key.
RECURSIVE WithCommas(_)
WithCommas(text) ==
    IF Len(text) < 2 THEN text
    ELSE LET front == SubSeq(text, 1, Len(text) - 1)
             last == text[Len(text)]
         IN  IF front[Len(front)].t \in EntryEnds /\ last.t = "key"
             THEN Append(Append(WithCommas(front), Comma), last)
             ELSE Append(WithCommas(front), last)

\* The time entry finalize adds: the default, when one is configured and no
\* timestamp call among calls succeeded.
DefaultEntry(calls) ==
    IF /\ default_timestamp.some
       /\ ~\E i \in 1..Len(calls) :
              calls[i].op = "timestamp" /\ calls[i].res = "Ok"
    THEN <<Key("time"), String(DefaultTimeText)>>
    ELSE <<>>

\* The document of calls followed by a finalize.
Document(calls) ==
    WithCommas(<<OpenBrace>> \o Entries(calls) \o DefaultEntry(calls)
               \o <<CloseBrace>>)

\* C17: the document yielded by the first successful finalize holds exactly
\* the entries of the calls that succeeded before it, in the order of the
\* calls, each in the object open when it was called (then the entry that
\* finalize itself adds for a default timestamp); timestamp(T),
\* measurement("temperature", 25.5), finalize yields exactly
\* {"time":"<T as RFC3339>","temperature":25.5}.
C17_DocumentHoldsEntriesInCallOrder ==
    Len(yielded) >= 1 =>
        LET calls == SubSeq(history, 1, FirstFinalize - 1) IN
        /\ yielded[1] = Document(calls)
        /\ (/\ ~default_timestamp.some
            /\ Len(calls) = 2
            /\ Succeeded(1, {"timestamp"})
            /\ Succeeded(2, {"measurement"})) =>
               yielded[1] = <<OpenBrace,
                              Key("time"), String(to_rfc3339(history[1].ts)),
                              Comma,
                              Key(history[2].name), Number(history[2].value),
                              CloseBrace>>

\* start_group(g), measurement, end_group, measurement, finalize yielded
\* {g:{first measurement},second measurement}.
C17_Witness ==
    /\ ~default_timestamp.some
    /\ Len(history) = 5
    /\ Succeeded(1, {"start_group"})
    /\ Succeeded(2, {"measurement"})
    /\ Succeeded(3, {"end_group"})
    /\ Succeeded(4, {"measurement"})
    /\ Succeeded(5, Finalizers)
    /\ history[2].name # history[4].name
    /\ yielded = << <<OpenBrace,
                      Key(history[1].name), OpenBrace,
                      Key(history[2].name), Number(history[2].value),
                      CloseBrace, Comma,
                      Key(history[4].name), Number(history[4].value),
                      CloseBrace>> >>

\* The arguments of the call the step makes.
CallMade == history'[Len(history')]

\* C18: measurement(name, value) is accepted at top level and inside a
\* group: it never fails, appends the one entry name:value to the buffer
\* (after at most one comma), so to the object open at the call, and leaves
\* is_within_group and timestamp_present unchanged.
C18_MeasurementAcceptedEverywhere ==
    [][IsCallOf({"measurement"}) =>
           LET entry == <<Key(CallMade.name), Number(CallMade.value)>> IN
           /\ ResultOfCall = "Ok"
           /\ json' \in {json \o entry, json \o <<Comma>> \o entry}
           /\ is_within_group' = is_within_group
           /\ timestamp_present' = timestamp_present
           /\ default_timestamp' = default_timestamp]_vars

\* A measurement was accepted inside a group, after another measurement.
C18_Witness ==
    /\ Len(history) >= 3
    /\ Succeeded(Len(history) - 2, {"start_group"})
    /\ Succeeded(Len(history) - 1, {"measurement"})
    /\ Succeeded(Len(history), {"measurement"})
    /\ is_within_group
    /\ json[Len(json) - 2] = Comma

\* C19: a call rejected with a protocol error leaves the serializer as it
\* was: the buffer, is_within_group, needs_separator, timestamp_present (and
\* the default timestamp) are unchanged, and nothing is yielded.
C19_RejectedCallChangesNothing ==
    [][(Len(history') = Len(history) + 1 /\ ResultOfCall # "Ok") =>
           /\ ResultOfCall \in {"UnexpectedTimestamp", "UnexpectedStartOfGroup",
                                "UnexpectedEndOfGroup", "UnexpectedEndOfData"}
           /\ json' = json
           /\ is_within_group' = is_within_group
           /\ needs_separator' = needs_separator
           /\ timestamp_present' = timestamp_present
           /\ default_timestamp' = default_timestamp
           /\ yielded' = yielded]_vars

\* Each of the four protocol errors has been returned to the caller.
C19_Witness ==
    \A e \in {"UnexpectedTimestamp", "UnexpectedStartOfGroup",
              "UnexpectedEndOfGroup", "UnexpectedEndOfData"} :
        \E i \in 1..Len(history) : history[i].res = e

\* The objects of text opened and not yet closed.
OpenObjects(text) == CountTokens(text, "{") - CountTokens(text, "}")

\* C20: in every state the buffer has 2 objects open when is_within_group
\* holds and at most 1 otherwise, never more than 2, and every yielded text
\* has as many closing as opening braces.
C20_GroupFlagAgreesWithBuffer ==
    /\ is_within_group => OpenObjects(json) = 2
    /\ ~is_within_group => OpenObjects(json) <= 1
    /\ OpenObjects(json) <= 2
    /\ \A d \in 1..Len(yielded) : OpenObjects(yielded[d]) = 0

=============================================================================
